---------------------------- MODULE Spec2Model ----------------------------
(***************************************************************************)
(* A model of the action-resolution core of PyRPG: the Action hierarchy    *)
(* (actions.py), the consumable effects (components/consumable.py), the    *)
(* turn scheduler (engine.py) and the static entity data                   *)
(* (entity_factories.py).                                                  *)
(*                                                                         *)
(* The game map, the Fighter and Inventory components, the AI strategies   *)
(* and the field-of-view computation are collaborators whose code is not   *)
(* part of the modelled sources; they are modelled at their interface.     *)
(***************************************************************************)
EXTENDS Integers, Sequences, FiniteSets, TLC

\* ------------------------------------------------------------------------
\* Bounds of the model
\* ------------------------------------------------------------------------
MapWidth == 7

MapHeight == 2

MaxLog == 2

MaxSteps == 2

MaxBonus == 3

MaxAttacks == 5

MaxPasses == 12

\* ------------------------------------------------------------------------
\* Static data (entity_factories.py)
\* ------------------------------------------------------------------------
Actors == {"Player", "Orc", "Troll"}

\* engine.player
player == "Player"

\* The order in which game_map.actors yields the actors.
ActorOrder == <<"Player", "Orc", "Troll">>

PlayerHp == 30

OrcHp == 10

TrollHp == 16

power == [a \in Actors |-> IF a = "Troll" THEN 4 ELSE 3]

base_defense == [a \in Actors |-> IF a = "Orc" THEN 0 ELSE 1]

max_hp == [a \in Actors |-> CASE a = "Player" -> PlayerHp
                              [] a = "Orc" -> OrcHp
                              [] OTHER -> TrollHp]

PlayerCapacity == 26

EnemyCapacity == 0

capacity == [a \in Actors |-> IF a = "Player" THEN PlayerCapacity ELSE EnemyCapacity]

HealAmount == 4

LightningDamage == 20

LightningRange == 5

ConfusionTurns == 10

FireballDamage == 12

FireballRadius == 4

HypnotizingTurns == 7

SpeedTurns == 20

EffectFrames == 10

Kinds == {"healing", "lightning", "confusion", "fireball", "hypnotizing", "speed"}

Items == {"itemA", "itemB"}

None == "None"

\* ------------------------------------------------------------------------
\* The map
\* ------------------------------------------------------------------------
Tiles == (0 .. MapWidth - 1) \X (0 .. MapHeight - 1)

\* The tiles whose "walkable" flag is false.
Walls == {<<2, 1>>}

in_bounds(x, y) == 0 <= x /\ x < MapWidth /\ 0 <= y /\ y < MapHeight

walkable(x, y) == <<x, y>> \notin Walls

Directions == {d \in (-1 .. 1) \X (-1 .. 1) : d # <<0, 0>>}

VARIABLES
    pos,                    \* actor -> <<x, y>>
    hp,                     \* actor -> fighter.hp
    ai,                     \* actor -> the strategy with its chain of previous_ai; <<>> is no AI
    is_speeded,             \* actor -> speed boost flag
    speed_turns_remaining,  \* actor -> remaining boosted movements
    entities,               \* the items among game_map.entities, in list order
    item_xy,                \* item -> <<x, y>> of the item entity
    parent,                 \* item -> "gamemap" or the actor whose inventory owns it
    consumable,             \* item -> kind of consumable
    defense,                \* actor -> fighter.defense, the bonus of the equipment included
    inventory,              \* actor -> inventory.items
    visible,                \* the tiles with game_map.visible set
    message_log,            \* the messages added, oldest first
    lightning_effect,       \* engine.lightning_effect
    fireball_effect,        \* engine.fireball_effect
    turn_pc,                \* handle_enemy_turns: "idle", "loop", "returned" or "aborted"
    pending,                \* handle_enemy_turns: the entities still to iterate
    performed,              \* handle_enemy_turns: <<actor, outcome>> of each AI perform of the call
    clock,                  \* the number of actions performed where a run is bounded
    drawn,                  \* render passes so far: which effects each of them drew
    last                    \* the last perform and how it ended

world == <<pos, hp, ai, is_speeded, speed_turns_remaining, entities, item_xy, parent,
           consumable, defense, inventory, visible, message_log, lightning_effect, fireball_effect>>

vars == <<pos, hp, ai, is_speeded, speed_turns_remaining, entities, item_xy, parent,
          consumable, defense, inventory, visible, message_log, lightning_effect,
          fireball_effect, turn_pc, pending, performed, clock, drawn, last>>

scheduler == <<turn_pc, pending, performed, clock, drawn>>

\* ------------------------------------------------------------------------
\* Helpers
\* ------------------------------------------------------------------------
Ok == "ok"

\* What is remembered of a perform: the action, where its entity stood when it
\* began, and "ok" or the message of the Impossible it raised.
Performed(op, entity, dx, dy, item, target_xy, raised) ==
    [op |-> op, entity |-> entity, dx |-> dx, dy |-> dy, item |-> item,
     target_xy |-> target_xy, raised |-> raised,
     at |-> IF entity \in Actors THEN pos[entity] ELSE <<0, 0>>]

NoLast == Performed("none", None, 0, 0, None, <<0, 0>>, Ok)

RECURSIVE SeqRemove(_, _)
\* list.remove(x): the list without the first occurrence of x.
SeqRemove(s, x) ==
    IF s = <<>> THEN <<>>
    ELSE IF Head(s) = x THEN Tail(s)
    ELSE <<Head(s)>> \o SeqRemove(Tail(s), x)

Range(s) == {s[i] : i \in 1 .. Len(s)}

\* GameMap.get_blocking_entity_at_location: every actor blocks movement.
get_blocking_entity_at_location(x, y) ==
    LET hits == {i \in 1 .. Len(ActorOrder) : pos[ActorOrder[i]] = <<x, y>>}
    IN  IF hits = {} THEN None
        ELSE ActorOrder[CHOOSE i \in hits : \A j \in hits : i <= j]

\* GameMap.get_actor_at_location: the first actor at the location.
get_actor_at_location(x, y) == get_blocking_entity_at_location(x, y)

\* Entity.distance, squared: the code compares square roots of these integers.
distance2(a, x, y) ==
    (x - pos[a][1]) * (x - pos[a][1]) + (y - pos[a][2]) * (y - pos[a][2])

\* Fighter.take_damage: hp is clamped at 0.
take_damage(h, amount) == IF h - amount < 0 THEN 0 ELSE h - amount

\* ------------------------------------------------------------------------
\* MovementAction (actions.py 132-168)
\* ------------------------------------------------------------------------
MovementSpeed(e) == IF is_speeded[e] THEN 2 ELSE 1

\* A check that looks at the map only, not at who stands on the tile.
MovementBlockedByMapOnly(e, dx, dy, step) ==
    LET dest_x == pos[e][1] + dx * step
        dest_y == pos[e][2] + dy * step
    IN  \/ ~in_bounds(dest_x, dest_y)
        \/ ~walkable(dest_x, dest_y)

\* Lines 143-147: the step's destination is out of bounds, not walkable or taken.
MovementBlocked(e, dx, dy, step) ==
    LET dest_x == pos[e][1] + dx * step
        dest_y == pos[e][2] + dy * step
    IN  \/ ~in_bounds(dest_x, dest_y)
        \/ ~walkable(dest_x, dest_y)
        \/ get_blocking_entity_at_location(dest_x, dest_y) # None

RECURSIVE MovementScanNoBreak(_, _, _, _, _)
\* A scan that skips a blocked step instead of stopping at it.
MovementScanNoBreak(e, dx, dy, step, max_valid_step) ==
    IF step > MovementSpeed(e) THEN max_valid_step
    ELSE IF MovementBlocked(e, dx, dy, step)
         THEN MovementScanNoBreak(e, dx, dy, step + 1, max_valid_step)
         ELSE MovementScanNoBreak(e, dx, dy, step + 1, step)

RECURSIVE MovementScan(_, _, _, _, _)
\* The loop of lines 137-151: max_valid_step after the steps step..speed.
MovementScan(e, dx, dy, step, max_valid_step) ==
    IF step > MovementSpeed(e) THEN max_valid_step
    ELSE IF MovementBlocked(e, dx, dy, step) THEN max_valid_step
    ELSE MovementScan(e, dx, dy, step + 1, step)

Msg(text, name) == <<text, name>>

\* A boost that lasts a number of tiles instead of a number of moves.
SpeedTurnsPerTile(remaining, max_valid_step) == remaining - max_valid_step

\* Line 162: a successful move of a boosted actor uses up one turn of the boost.
SpeedTurnsAfterMove(remaining, max_valid_step) == remaining - 1

MovementAction(e, dx, dy) ==
    LET max_valid_step == MovementScan(e, dx, dy, 1, 0)
    IN  IF max_valid_step = 0
        THEN /\ last' = Performed("MovementAction", e, dx, dy, None, <<0, 0>>,
                                  "That way is blocked.")
             /\ UNCHANGED world
        ELSE /\ pos' = [pos EXCEPT ![e] = <<pos[e][1] + dx * max_valid_step,
                                            pos[e][2] + dy * max_valid_step>>]
             /\ IF is_speeded[e]
                THEN /\ speed_turns_remaining' =
                            [speed_turns_remaining EXCEPT
                                ![e] = SpeedTurnsAfterMove(@, max_valid_step)]
                     /\ IF speed_turns_remaining'[e] <= 0
                        THEN /\ is_speeded' = [is_speeded EXCEPT ![e] = FALSE]
                             /\ message_log' = Append(message_log,
                                    Msg("is no longer under the effect of a speed scroll.", e))
                        ELSE UNCHANGED <<is_speeded, message_log>>
                ELSE UNCHANGED <<is_speeded, speed_turns_remaining, message_log>>
             /\ last' = Performed("MovementAction", e, dx, dy, None, <<0, 0>>, Ok)
             /\ UNCHANGED <<hp, ai, entities, item_xy, parent, consumable, defense, inventory,
                            visible, lightning_effect, fireball_effect>>


\* ------------------------------------------------------------------------
\* PickupAction (actions.py 57-74)
\* ------------------------------------------------------------------------
\* The places in game_map.items of the items lying on the actor's tile.
ItemsHere(e) == {i \in 1 .. Len(entities) : item_xy[entities[i]] = pos[e]}

PickupFullAtOrOver(len, cap) == len > cap

\* Line 64: the inventory has no room.
PickupFull(len, cap) == len >= cap

\* A pickup that leaves the item on the map.
PickupLeavesOnMap(item) == entities

\* Line 67: the item is taken out of the entities of the map.
PickupRemoves(item) == SeqRemove(entities, item)

PickupAction(e) ==
    IF ItemsHere(e) = {}
    THEN /\ last' = Performed("PickupAction", e, 0, 0, None, <<0, 0>>,
                              "There is nothing here to pick up.")
         /\ UNCHANGED world
    ELSE LET item == entities[CHOOSE i \in ItemsHere(e) : \A j \in ItemsHere(e) : i <= j]
         IN  IF PickupFull(Len(inventory[e]), capacity[e])
             THEN /\ last' = Performed("PickupAction", e, 0, 0, item, <<0, 0>>,
                                       "Your inventory is full.")
                  /\ UNCHANGED world
             ELSE /\ entities' = PickupRemoves(item)
                  /\ parent' = [parent EXCEPT ![item] = e]
                  /\ inventory' = [inventory EXCEPT ![e] = Append(@, item)]
                  /\ message_log' = Append(message_log, Msg("You picked up the", item))
                  /\ last' = Performed("PickupAction", e, 0, 0, item, <<0, 0>>, Ok)
                  /\ UNCHANGED <<pos, hp, ai, is_speeded, speed_turns_remaining, item_xy,
                                 consumable, defense, visible, lightning_effect, fireball_effect>>

\* ------------------------------------------------------------------------
\* Consumables (components/consumable.py)
\* ------------------------------------------------------------------------
\* Consumable.consume (34-39): the inventories after the item consumed itself.
consume(item) ==
    IF parent[item] \in Actors
    THEN [inventory EXCEPT ![parent[item]] = SeqRemove(@, item)]
    ELSE inventory

\* Fighter.heal: the hp after healing, clamped at max_hp.
heal(a, amount) == IF hp[a] + amount > max_hp[a] THEN max_hp[a] ELSE hp[a] + amount

ItemDone(e, item, target_xy, raised) ==
    last' = Performed("ItemAction", e, 0, 0, item, target_xy, raised)

\* A potion that is drunk whatever it recovers.
HealingRecoveredOrNot(amount_recovered) == amount_recovered >= 0

\* Line 50: the potion has recovered something.
HealingRecovered(amount_recovered) == amount_recovered > 0

\* HealingConsumable.activate (46-58)
HealingActivate(e, item, target_xy) ==
    LET amount_recovered == heal(e, HealAmount) - hp[e]
    IN  IF HealingRecovered(amount_recovered)
        THEN /\ hp' = [hp EXCEPT ![e] = heal(e, HealAmount)]
             /\ message_log' = Append(message_log, Msg("You consume the", item))
             /\ inventory' = consume(item)
             /\ ItemDone(e, item, target_xy, Ok)
             /\ UNCHANGED <<pos, ai, is_speeded, speed_turns_remaining, entities, item_xy,
                            parent, consumable, defense, visible, lightning_effect, fireball_effect>>
        ELSE /\ ItemDone(e, item, target_xy, "Your health is already full.")
             /\ UNCHANGED world

RECURSIVE LightningScan(_, _, _, _)
\* The loop of lines 69-75 from the i-th actor on: the target it ends with.
LightningScan(consumer, i, target, closest2) ==
    IF i > Len(ActorOrder) THEN target
    ELSE LET actor == ActorOrder[i]
             d2 == distance2(consumer, pos[actor][1], pos[actor][2])
         IN  IF actor # consumer /\ pos[actor] \in visible /\ d2 < closest2
             THEN LightningScan(consumer, i + 1, actor, d2)
             ELSE LightningScan(consumer, i + 1, target, closest2)

\* Line 67: closest_distance starts at maximum_range + 1.0 (squared here).
LightningStart == (LightningRange + 1) * (LightningRange + 1)

\* LightningDamageConsumable.activate (64-90)
LightningActivate(e, item, target_xy) ==
    LET target == LightningScan(e, 1, None, LightningStart)
    IN  IF target # None
        THEN /\ message_log' = Append(message_log, Msg("A lighting bolt strikes the", target))
             /\ hp' = [hp EXCEPT ![target] = take_damage(@, LightningDamage)]
             /\ lightning_effect' = [start |-> pos[e], end |-> pos[target],
                                     frames |-> EffectFrames]
             /\ ItemDone(e, item, target_xy, Ok)
             /\ UNCHANGED <<pos, ai, is_speeded, speed_turns_remaining, entities, item_xy,
                            parent, consumable, defense, inventory, visible, fireball_effect>>
        ELSE /\ ItemDone(e, item, target_xy, "No enemy is close enough to strike.")
             /\ UNCHANGED world

NotVisibleMsg == "You cannot target an area that you cannot see."

NoTargetMsg == "You must select an enemy to target."

\* A check order that looks at the target before the visibility of the tile.
StatusFailureSelfFirst(e, target_xy, selfMsg) ==
    LET target == get_actor_at_location(target_xy[1], target_xy[2])
    IN  IF target = e THEN selfMsg
        ELSE IF target_xy \notin visible THEN NotVisibleMsg
        ELSE IF target = None THEN NoTargetMsg
        ELSE Ok

\* The three checks of lines 110-118 and 137-142: the message raised, or Ok.
StatusFailure(e, target_xy, selfMsg) ==
    LET target == get_actor_at_location(target_xy[1], target_xy[2])
    IN  IF target_xy \notin visible THEN NotVisibleMsg
        ELSE IF target = e THEN selfMsg
        ELSE IF target = None THEN NoTargetMsg
        ELSE Ok

\* An overlay that forgets the strategy it replaces.
OverlayWithoutPrevious(cls, turns, previous_ai) ==
    <<[cls |-> cls, turns_remaining |-> turns]>>

\* Lines 124-126 and 148-150: the new strategy, with the strategy the target
\* held as its previous_ai.
Overlay(cls, turns, previous_ai) ==
    <<[cls |-> cls, turns_remaining |-> turns]>> \o previous_ai

\* Lines 120-127 and 144-151: the overlay strategy is put on the target.
StatusApply(e, item, target_xy, cls, turns, text) ==
    LET target == get_actor_at_location(target_xy[1], target_xy[2])
    IN  /\ message_log' = Append(message_log, Msg(text, target))
        /\ ai' = [ai EXCEPT ![target] = Overlay(cls, turns, @)]
        /\ inventory' = consume(item)
        /\ ItemDone(e, item, target_xy, Ok)
        /\ UNCHANGED <<pos, hp, is_speeded, speed_turns_remaining, entities, item_xy,
                       parent, consumable, defense, visible, lightning_effect, fireball_effect>>

\* ConfusionConsumable.activate (104-127)
ConfusionActivate(e, item, target_xy) ==
    LET raised == StatusFailure(e, target_xy, "You cannot confuse yourself!")
    IN  IF raised # Ok
        THEN ItemDone(e, item, target_xy, raised) /\ UNCHANGED world
        ELSE StatusApply(e, item, target_xy, "ConfusedEnemy", ConfusionTurns,
                         "looks vacant, as it starts to stumble around!")

\* HypnotizingConsumable.activate (131-151)
HypnotizingActivate(e, item, target_xy) ==
    LET raised == StatusFailure(e, target_xy, "You cannot hypnotize yourself!")
    IN  IF raised # Ok
        THEN ItemDone(e, item, target_xy, raised) /\ UNCHANGED world
        ELSE StatusApply(e, item, target_xy, "HypnotizedEnemy", HypnotizingTurns,
                         "looks entranced, as it starts to follow your commands!")

FireballHitsInside(a, target_xy) ==
    distance2(a, target_xy[1], target_xy[2]) < FireballRadius * FireballRadius

\* Line 177: actor.distance(*target_xy) <= self.radius.
FireballHits(a, target_xy) ==
    distance2(a, target_xy[1], target_xy[2]) <= FireballRadius * FireballRadius

RECURSIVE FireballLog(_, _)
\* The messages of the loop of lines 176-182, from the i-th actor on.
FireballLog(i, target_xy) ==
    IF i > Len(ActorOrder) THEN <<>>
    ELSE (IF FireballHits(ActorOrder[i], target_xy)
          THEN <<Msg("is engulfed in a fiery explosion", ActorOrder[i])>>
          ELSE <<>>) \o FireballLog(i + 1, target_xy)

\* Lines 184-190: the tiles of the map inside the disc.
FireballTiles(target_xy) ==
    {t \in Tiles : (t[1] - target_xy[1]) * (t[1] - target_xy[1])
                   + (t[2] - target_xy[2]) * (t[2] - target_xy[2])
                   <= FireballRadius * FireballRadius}

FireballConsumesAlways(targets_hit) == TRUE

\* Lines 197-199: consume() is reached only when a target was hit.
FireballConsumes(targets_hit) == targets_hit

\* FireballDamageConsumable.activate (168-199)
FireballActivate(e, item, target_xy) ==
    IF target_xy \notin visible
    THEN ItemDone(e, item, target_xy, NotVisibleMsg) /\ UNCHANGED world
    ELSE LET targets_hit == \E a \in Actors : FireballHits(a, target_xy)
             affected_tiles == FireballTiles(target_xy)
         IN  /\ hp' = [a \in Actors |-> IF FireballHits(a, target_xy)
                                        THEN take_damage(hp[a], FireballDamage)
                                        ELSE hp[a]]
             /\ message_log' = message_log \o FireballLog(1, target_xy)
             /\ fireball_effect' = IF affected_tiles # {}
                                   THEN [tiles |-> affected_tiles, frames |-> EffectFrames]
                                   ELSE fireball_effect
             /\ inventory' = IF FireballConsumes(targets_hit) THEN consume(item) ELSE inventory
             /\ ItemDone(e, item, target_xy,
                         IF targets_hit THEN Ok ELSE "There are no targets in the radius.")
             /\ UNCHANGED <<pos, ai, is_speeded, speed_turns_remaining, entities, item_xy,
                            parent, consumable, defense, visible, lightning_effect>>

\* A scroll that never refuses.
AlreadySpeededNever(e) == FALSE

\* Line 206: the consumer is under the effect of a speed scroll.
AlreadySpeeded(e) == is_speeded[e]

\* SpeedScroll.activate (204-215)
SpeedActivate(e, item, target_xy) ==
    IF AlreadySpeeded(e)
    THEN /\ ItemDone(e, item, target_xy,
                     "You are already under the effect of a speed scroll.")
         /\ UNCHANGED world
    ELSE /\ message_log' = Append(message_log, Msg("You feel yourself moving faster", e))
         /\ is_speeded' = [is_speeded EXCEPT ![e] = TRUE]
         /\ speed_turns_remaining' = [speed_turns_remaining EXCEPT ![e] = SpeedTurns]
         /\ inventory' = consume(item)
         /\ ItemDone(e, item, target_xy, Ok)
         /\ UNCHANGED <<pos, hp, ai, entities, item_xy, parent, consumable, defense, visible,
                        lightning_effect, fireball_effect>>

\* Consumable.get_action: the kinds that ask for a target tile.
Targeted(kind) == kind \in {"confusion", "hypnotizing", "fireball"}

\* ItemAction.perform (actions.py 47-50)
ItemAction(e, item, target_xy) ==
    CASE consumable[item] = "healing" -> HealingActivate(e, item, target_xy)
      [] consumable[item] = "lightning" -> LightningActivate(e, item, target_xy)
      [] consumable[item] = "confusion" -> ConfusionActivate(e, item, target_xy)
      [] consumable[item] = "hypnotizing" -> HypnotizingActivate(e, item, target_xy)
      [] consumable[item] = "fireball" -> FireballActivate(e, item, target_xy)
      [] consumable[item] = "speed" -> SpeedActivate(e, item, target_xy)
      [] OTHER -> ItemDone(e, item, target_xy, Ok) /\ UNCHANGED world


\* ------------------------------------------------------------------------
\* MeleeAction and WaitAction (actions.py 107-129, 169-171)
\* ------------------------------------------------------------------------
\* A setter that stores what it is given.
hp_set_unclamped(a, value) == value

\* The Fighter.hp setter: the value is kept inside 0 .. max_hp.
hp_set(a, value) ==
    IF value < 0 THEN 0 ELSE IF value > max_hp[a] THEN max_hp[a] ELSE value

\* An attack that the defense of the target does not weaken.
MeleeDamageIgnoringDefense(e, target) == power[e]

\* Line 113: the damage of an attack.
MeleeDamage(e, target) == power[e] - defense[target]

MeleeAction(e, dx, dy) ==
    LET target == get_actor_at_location(pos[e][1] + dx, pos[e][2] + dy)
        damage == MeleeDamage(e, target)
    IN  IF target = None
        THEN /\ last' = Performed("MeleeAction", e, dx, dy, None, <<0, 0>>,
                                  "Nothing to attack.")
             /\ UNCHANGED world
        ELSE /\ IF damage > 0
                THEN /\ message_log' = Append(message_log, Msg("attacks for hit points", target))
                     /\ hp' = [hp EXCEPT ![target] = hp_set(target, @ - damage)]
                ELSE /\ message_log' = Append(message_log, Msg("attacks but does no damage", target))
                     /\ hp' = hp
             /\ last' = Performed("MeleeAction", e, dx, dy, None, <<0, 0>>, Ok)
             /\ UNCHANGED <<pos, ai, is_speeded, speed_turns_remaining, entities, item_xy,
                            parent, consumable, defense, inventory, visible, lightning_effect,
                            fireball_effect>>

WaitAction(e) ==
    /\ last' = Performed("WaitAction", e, 0, 0, None, <<0, 0>>, Ok)
    /\ UNCHANGED world

\* A bump that never attacks.
BumpAlwaysMoves(e, dx, dy) == MovementAction(e, dx, dy)

\* BumpAction.perform (actions.py 99-105)
BumpAction(e, dx, dy) ==
    IF get_actor_at_location(pos[e][1] + dx, pos[e][2] + dy) # None
    THEN MeleeAction(e, dx, dy)
    ELSE MovementAction(e, dx, dy)

\* ------------------------------------------------------------------------
\* DropItem and TakeStairsAction (actions.py 172-191)
\* ------------------------------------------------------------------------
\* Inventory.drop: the item leaves the inventory and is placed on the map at the
\* tile of the actor.
drop(e, item) ==
    /\ inventory' = [inventory EXCEPT ![e] = SeqRemove(@, item)]
    /\ item_xy' = [item_xy EXCEPT ![item] = pos[e]]
    /\ parent' = [parent EXCEPT ![item] = "gamemap"]
    /\ entities' = Append(entities, item)
    /\ message_log' = Append(message_log, Msg("You dropped the", item))

\* DropItem.perform (172-177). The items of the model are consumables, none of
\* which is equipped, so that lines 174-175 do nothing.
DropItem(e, item) ==
    /\ drop(e, item)
    /\ last' = Performed("DropItem", e, 0, 0, item, <<0, 0>>, Ok)
    /\ UNCHANGED <<pos, hp, ai, is_speeded, speed_turns_remaining, consumable, defense,
                   visible, lightning_effect, fireball_effect>>

\* game_map.downstairs_tiles
downstairs_tiles == {<<0, 0>>}

\* Where the actors of a new floor stand.
NewFloor == [a \in Actors |-> CASE a = "Player" -> <<0, 0>>
                                [] a = "Orc" -> <<1, 0>>
                                [] OTHER -> <<3, 0>>]

\* GameWorld.generate_floor: a new map, with the player on it keeping what it is
\* and holds, new enemies, and none of the items that lay on the old map.
generate_floor ==
    /\ pos' = NewFloor
    /\ hp' = [a \in Actors |-> IF a = player THEN hp[a] ELSE max_hp[a]]
    /\ ai' = [a \in Actors |-> IF a = player THEN ai[a]
                                ELSE <<[cls |-> "HostileEnemy", turns_remaining |-> 0]>>]
    /\ is_speeded' = [a \in Actors |-> a = player /\ is_speeded[a]]
    /\ speed_turns_remaining' =
           [a \in Actors |-> IF a = player THEN speed_turns_remaining[a] ELSE 0]
    /\ entities' = <<>>
    /\ inventory' = [a \in Actors |-> IF a = player THEN inventory[a] ELSE <<>>]
    /\ UNCHANGED <<item_xy, parent, consumable, defense, visible>>

TakeStairsAction(e) ==
    IF pos[e] \in downstairs_tiles
    THEN /\ generate_floor
         /\ message_log' = Append(message_log, Msg("You descend the staircase.", e))
         /\ last' = Performed("TakeStairsAction", e, 0, 0, None, <<0, 0>>, Ok)
         /\ UNCHANGED <<lightning_effect, fireball_effect>>
    ELSE /\ last' = Performed("TakeStairsAction", e, 0, 0, None, <<0, 0>>,
                              "There are no stairs here.")
         /\ UNCHANGED world

\* ------------------------------------------------------------------------
\* Engine.handle_enemy_turns (engine.py 29-35)
\* ------------------------------------------------------------------------
Fatal == "fatal"

\* entity.ai.perform(): the strategy produces an action and performs it, or
\* fails with an exception that is not Impossible.
AIPerform(entity) ==
    \/ WaitAction(entity)
    \/ \E d \in Directions : BumpAction(entity, d[1], d[2])
    \/ /\ last' = Performed("ai.perform", entity, 0, 0, None, <<0, 0>>, Fatal)
       /\ UNCHANGED world

\* A loop that an Impossible ends.
AfterPerformStopOnImpossible(raised) == IF raised = Ok THEN "loop" ELSE "aborted"

\* A loop that catches every exception.
AfterPerformCatchAll(raised) == "loop"

\* Lines 32-35: Impossible is caught and ignored, anything else leaves the loop.
AfterPerform(raised) == IF raised = Fatal THEN "aborted" ELSE "loop"

\* The entities the loop iterates over.
EnemyTurnEntities == Actors \ {player}

\* Line 30: the set of entities is built and the loop entered.
HandleEnemyTurnsBegin ==
    /\ turn_pc = "idle"
    /\ turn_pc' = "loop"
    /\ pending' = EnemyTurnEntities
    /\ performed' = <<>>
    /\ UNCHANGED <<world, last, clock, drawn>>

\* Line 30 iterates over a set of entities, which are hashed by their identity:
\* the order is the one of their addresses, which the world state does not fix,
\* so any entity not yet visited may be the next one.
NextInSet(notVisited) == notVisited

\* One iteration of the loop, on any entity of the set not yet visited.
HandleEnemyTurnsStep ==
    /\ turn_pc = "loop"
    /\ \E entity \in NextInSet(pending) :
         /\ pending' = pending \ {entity}
         /\ IF ai[entity] # <<>>
            THEN /\ AIPerform(entity)
                 /\ performed' = Append(performed, <<entity, last'.raised>>)
                 /\ turn_pc' = AfterPerform(last'.raised)
            ELSE UNCHANGED <<world, last, performed, turn_pc>>
    /\ UNCHANGED <<clock, drawn>>

\* The loop has visited every entity: the call returns.
HandleEnemyTurnsReturn ==
    /\ turn_pc = "loop"
    /\ pending = {}
    /\ turn_pc' = "returned"
    /\ UNCHANGED <<world, last, pending, performed, clock, drawn>>

\* ------------------------------------------------------------------------
\* Engine.render (engine.py 48-93)
\* ------------------------------------------------------------------------
NoLightning == [start |-> <<0, 0>>, end |-> <<0, 0>>, frames |-> 0]

NoFireball == [tiles |-> {}, frames |-> 0]

\* A pass that uses up two frames.
FramesAfterPassByTwo(frames) == frames - 2

\* Lines 84 and 91: a pass uses up one frame of the effect it has drawn.
FramesAfterPass(frames) == frames - 1

\* Lines 78 and 88: the slot holds an effect. An empty slot is the record with
\* no frames.
HasEffect(effect) == effect.frames # 0

\* Lines 78-93: an effect in a slot is drawn, loses a frame, and leaves the slot
\* when it has none left. The rest of the pass draws the map, the log and the
\* bars and changes nothing.
Render ==
    /\ Len(drawn) < MaxPasses
    /\ drawn' = Append(drawn, [lightning |-> HasEffect(lightning_effect),
                               fireball |-> HasEffect(fireball_effect)])
    /\ lightning_effect' =
          IF ~HasEffect(lightning_effect) THEN lightning_effect
          ELSE IF FramesAfterPass(lightning_effect.frames) <= 0 THEN NoLightning
          ELSE [lightning_effect EXCEPT !.frames = FramesAfterPass(@)]
    /\ fireball_effect' =
          IF ~HasEffect(fireball_effect) THEN fireball_effect
          ELSE IF FramesAfterPass(fireball_effect.frames) <= 0 THEN NoFireball
          ELSE [fireball_effect EXCEPT !.frames = FramesAfterPass(@)]
    /\ UNCHANGED <<pos, hp, ai, is_speeded, speed_turns_remaining, entities, item_xy, parent,
                   consumable, defense, inventory, visible, message_log, turn_pc, pending,
                   performed, clock, last>>

\* ------------------------------------------------------------------------
\* Actions performed outside the enemy turns
\* ------------------------------------------------------------------------
\* Nobody has died: what the death of an actor does to it is outside the model,
\* which performs nothing more once an actor has lost its last hp.
AllAlive == \A a \in Actors : hp[a] > 0

\* The actors that perform actions: the player, and the actors an AI drives.
Acting == {e \in Actors : e = player \/ ai[e] # <<>>}

Move ==
    /\ turn_pc # "loop"
    /\ \E e \in Acting, d \in Directions : MovementAction(e, d[1], d[2])
    /\ UNCHANGED scheduler

Pickup ==
    /\ turn_pc # "loop"
    /\ Len(message_log) < MaxLog
    /\ \E e \in Acting : PickupAction(e)
    /\ UNCHANGED scheduler

Bump ==
    /\ turn_pc # "loop"
    /\ Len(message_log) < MaxLog
    /\ \E e \in Acting, d \in Directions : BumpAction(e, d[1], d[2])
    /\ UNCHANGED scheduler

Melee ==
    /\ turn_pc # "loop"
    /\ Len(message_log) < MaxLog
    /\ AllAlive
    /\ \E e \in Acting, d \in Directions : MeleeAction(e, d[1], d[2])
    /\ UNCHANGED scheduler

Drop ==
    /\ turn_pc # "loop"
    /\ Len(message_log) < MaxLog
    /\ \E e \in Acting : \E i \in 1 .. Len(inventory[e]) : DropItem(e, inventory[e][i])
    /\ UNCHANGED scheduler

TakeStairs ==
    /\ turn_pc # "loop"
    /\ Len(message_log) < MaxLog
    /\ AllAlive
    /\ \E e \in Acting : TakeStairsAction(e)
    /\ UNCHANGED scheduler

\* A move of a bounded number of moves.
Step ==
    /\ turn_pc # "loop"
    /\ clock < MaxSteps
    /\ clock' = clock + 1
    /\ \E e \in Acting, d \in Directions : MovementAction(e, d[1], d[2])
    /\ UNCHANGED <<turn_pc, pending, performed, drawn>>

Wait ==
    /\ turn_pc # "loop"
    /\ \E e \in Acting : WaitAction(e)
    /\ UNCHANGED scheduler

\* Consumable.get_action: the target tile the action is built with.
Targets(e, item) == IF Targeted(consumable[item]) THEN Tiles ELSE {pos[e]}

UseItem ==
    /\ turn_pc # "loop"
    /\ Len(message_log) < MaxLog
    /\ \E e \in Acting :
         \E i \in 1 .. Len(inventory[e]) :
           \E target_xy \in Targets(e, inventory[e][i]) :
             ItemAction(e, inventory[e][i], target_xy)
    /\ UNCHANGED scheduler

\* An item use while everybody is alive.
UseItemAlive == AllAlive /\ UseItem

\* An item use before the first render pass.
UseItemFirst == drawn = <<>> /\ UseItem

\* ------------------------------------------------------------------------
\* Initial states
\* ------------------------------------------------------------------------
HostileEnemy == <<[cls |-> "HostileEnemy", turns_remaining |-> 0]>>

Floor == {t \in Tiles : walkable(t[1], t[2])}

\* Engine.update_fov: the field of view has radius 4 around the player.
FovRadius == 4

InFov(t) == distance2(player, t[1], t[2]) <= FovRadius * FovRadius

\* Placements of the three actors on distinct walkable tiles.
Placements(playerTiles, enemyTiles) ==
    {p \in [Actors -> Floor] :
        /\ p["Player"] \in playerTiles
        /\ p["Orc"] \in enemyTiles
        /\ p["Troll"] \in enemyTiles
        /\ p["Player"] # p["Orc"] /\ p["Player"] # p["Troll"] /\ p["Orc"] # p["Troll"]}

InitQuiet ==
    /\ message_log = <<>>
    /\ lightning_effect = NoLightning
    /\ fireball_effect = NoFireball
    /\ turn_pc = "idle"
    /\ pending = {}
    /\ performed = <<>>
    /\ clock = 0
    /\ drawn = <<>>
    /\ last = NoLast

InitNoItems ==
    /\ entities = <<>>
    /\ item_xy = [i \in Items |-> <<0, 0>>]
    /\ parent = [i \in Items |-> "gamemap"]
    /\ consumable \in [Items -> {"healing"}]
    /\ inventory = [a \in Actors |-> <<>>]

\* The tiles of the two rows and the column the bounds do not move.
Corner(w) == {t \in Floor : t[1] <= w /\ t[2] <= 1}

\* Movement: the player and the Orc anywhere, the Troll without an AI standing in
\* their way, the player with or without a boost about to end.
InitMove ==
    /\ pos \in {p \in Placements(Floor, Floor) : p["Troll"] \in Corner(3) \ Corner(2)}
    /\ hp = max_hp
    /\ defense = base_defense
    /\ ai = [a \in Actors |-> IF a = "Troll" THEN <<>> ELSE HostileEnemy]
    /\ \E n \in 0 .. 2 :
         /\ is_speeded = [a \in Actors |-> a = player /\ n > 0]
         /\ speed_turns_remaining = [a \in Actors |-> IF a = player THEN n ELSE 0]
    /\ InitNoItems
    /\ visible = Tiles
    /\ InitQuiet

SpecMove == InitMove /\ [][Move]_vars

\* Enemy turns: the actors start in the left part of the map, the player with its
\* AI, the others with or without one.
InitTurns ==
    /\ pos \in Placements(Corner(2), Corner(2))
    /\ hp = max_hp
    /\ defense = base_defense
    /\ ai \in {f \in [Actors -> {<<>>, HostileEnemy}] : f[player] # <<>>}
    /\ is_speeded = [a \in Actors |-> FALSE]
    /\ speed_turns_remaining = [a \in Actors |-> 0]
    /\ InitNoItems
    /\ visible = Tiles
    /\ InitQuiet

NextTurns == HandleEnemyTurnsBegin \/ HandleEnemyTurnsStep \/ HandleEnemyTurnsReturn

SpecTurns == InitTurns /\ [][NextTurns]_vars

\* Item use: the player in the corner holding a potion it has no use for and one
\* consumable of any kind, the others anywhere, under three visibility fields.
VisibleFields == {Tiles, {}, {t \in Tiles : InFov(t)}}

InitItems ==
    /\ pos \in Placements(Corner(0), Floor)
    /\ hp = max_hp
    /\ defense = base_defense
    /\ ai = [a \in Actors |-> HostileEnemy]
    /\ is_speeded = [a \in Actors |-> FALSE]
    /\ speed_turns_remaining = [a \in Actors |-> 0]
    /\ entities = <<>>
    /\ item_xy = [i \in Items |-> <<0, 0>>]
    /\ parent = [i \in Items |-> player]
    /\ consumable \in {c \in [Items -> Kinds] : c["itemB"] = "healing"}
    /\ inventory = [a \in Actors |-> IF a = player THEN <<"itemB", "itemA">> ELSE <<>>]
    /\ visible \in VisibleFields
    /\ InitQuiet

SpecItems == InitItems /\ [][UseItem]_vars

\* Pickup: the actors and the items in the corner of the map, each item lying on
\* the map or held by the player.
InitPickup ==
    /\ pos \in Placements(Corner(2), Corner(2))
    /\ hp = max_hp
    /\ defense = base_defense
    /\ ai = [a \in Actors |-> HostileEnemy]
    /\ is_speeded = [a \in Actors |-> FALSE]
    /\ speed_turns_remaining = [a \in Actors |-> 0]
    /\ item_xy \in [Items -> Corner(1)]
    /\ parent \in [Items -> {"gamemap", player}]
    /\ entities \in {s \in {<<>>, <<"itemA">>, <<"itemB">>, <<"itemA", "itemB">>,
                            <<"itemB", "itemA">>} :
                        Range(s) = {i \in Items : parent[i] = "gamemap"}}
    /\ inventory \in {f \in [Actors -> {<<>>, <<"itemA">>, <<"itemB">>, <<"itemA", "itemB">>}] :
                        /\ f["Orc"] = <<>> /\ f["Troll"] = <<>>
                        /\ Range(f[player]) = {i \in Items : parent[i] = player}}
    /\ consumable = [i \in Items |-> "healing"]
    /\ visible = Tiles
    /\ InitQuiet

SpecPickup == InitPickup /\ [][Pickup]_vars

\* Melee: the player in the corner with the Orc next to it, the Troll out of the
\* way without an AI, one of the actors wearing armour or nobody.
Armoured == {[a \in Actors |-> base_defense[a] + (IF a = w THEN b ELSE 0)] :
                w \in Actors \ {"Troll"}, b \in 0 .. MaxBonus}

InitMelee ==
    /\ pos \in {p \in Placements(Corner(0), Corner(3)) :
                   p["Orc"] \in Corner(1) /\ p["Troll"] = <<3, 0>>}
    /\ hp = max_hp
    /\ defense \in Armoured
    /\ ai = [a \in Actors |-> IF a = "Troll" THEN <<>> ELSE HostileEnemy]
    /\ is_speeded = [a \in Actors |-> FALSE]
    /\ speed_turns_remaining = [a \in Actors |-> 0]
    /\ InitNoItems
    /\ visible = Tiles
    /\ InitQuiet

\* One attack of a bounded series.
Attack ==
    /\ turn_pc # "loop"
    /\ clock < MaxAttacks
    /\ AllAlive
    /\ clock' = clock + 1
    /\ \E e \in Acting, d \in Directions : MeleeAction(e, d[1], d[2])
    /\ UNCHANGED <<turn_pc, pending, performed, drawn>>

SpecMelee == InitMelee /\ [][Attack]_vars

\* Bump: the three actors in the left part of the map, the player acting,
\* boosted or not.
InitBump ==
    /\ pos \in Placements(Corner(1), Corner(3))
    /\ hp = max_hp
    /\ defense = base_defense
    /\ ai = [a \in Actors |-> IF a = player THEN HostileEnemy ELSE <<>>]
    /\ \E n \in 0 .. 1 :
         /\ is_speeded = [a \in Actors |-> a = player /\ n > 0]
         /\ speed_turns_remaining = [a \in Actors |-> IF a = player THEN n ELSE 0]
    /\ InitNoItems
    /\ visible = Tiles
    /\ InitQuiet

SpecBump == InitBump /\ [][Bump]_vars

\* Inventories: the wounded player in the corner with the Orc next to it, both
\* acting, each item lying under one of them or held by the player.
InitInventory ==
    /\ pos \in {p \in Placements(Corner(0), Corner(3)) :
                   p["Orc"] = <<1, 0>> /\ p["Troll"] = <<3, 0>>}
    /\ hp = [a \in Actors |-> IF a = player THEN PlayerHp - 1 ELSE max_hp[a]]
    /\ defense = base_defense
    /\ ai = [a \in Actors |-> IF a = "Troll" THEN <<>> ELSE HostileEnemy]
    /\ is_speeded = [a \in Actors |-> FALSE]
    /\ speed_turns_remaining = [a \in Actors |-> 0]
    /\ parent \in [Items -> {"gamemap", player}]
    /\ item_xy \in {f \in [Items -> {<<0, 0>>, <<1, 0>>}] :
                       \A i \in Items : parent[i] = player => f[i] = <<0, 0>>}
    /\ entities \in {s \in {<<>>, <<"itemA">>, <<"itemB">>, <<"itemA", "itemB">>,
                            <<"itemB", "itemA">>} :
                        Range(s) = {i \in Items : parent[i] = "gamemap"}}
    /\ inventory \in {f \in [Actors -> {<<>>, <<"itemA">>, <<"itemB">>, <<"itemA", "itemB">>}] :
                        /\ f["Orc"] = <<>> /\ f["Troll"] = <<>>
                        /\ Range(f[player]) = {i \in Items : parent[i] = player}}
    /\ consumable \in {c \in [Items -> {"healing", "speed"}] : c["itemB"] = "healing"}
    /\ visible = Tiles
    /\ InitQuiet

NextInventory == Pickup \/ Drop \/ UseItem \/ Step

SpecInventory == InitInventory /\ [][NextInventory]_vars

\* Hit points: the player in the corner holding a potion and a potion or a
\* damaging scroll, the Orc next to it, both acting, each of them unhurt or hurt.
InitHp ==
    /\ pos \in {p \in Placements(Corner(0), Corner(3)) :
                   p["Orc"] \in Corner(1) /\ p["Troll"] = <<3, 0>>}
    /\ hp \in {h \in [Actors -> 1 .. PlayerHp] :
                  /\ h[player] \in {1, PlayerHp - 1, PlayerHp}
                  /\ h["Orc"] \in {1, OrcHp}
                  /\ h["Troll"] = TrollHp}
    /\ defense = base_defense
    /\ ai = [a \in Actors |-> IF a = "Troll" THEN <<>> ELSE HostileEnemy]
    /\ is_speeded = [a \in Actors |-> FALSE]
    /\ speed_turns_remaining = [a \in Actors |-> 0]
    /\ entities = <<>>
    /\ item_xy = [i \in Items |-> <<0, 0>>]
    /\ parent = [i \in Items |-> player]
    /\ consumable \in {c \in [Items -> {"healing", "lightning", "fireball"}] :
                         c["itemB"] = "healing"}
    /\ inventory = [a \in Actors |-> IF a = player THEN <<"itemB", "itemA">> ELSE <<>>]
    /\ visible = Tiles
    /\ InitQuiet

NextHp == Melee \/ UseItemAlive

SpecHp == InitHp /\ [][NextHp]_vars

\* Refusals: the unhurt player on the stairs holding one consumable, the Orc next
\* to it, both acting, the other item lying under one of them, the map seen or
\* not, the player boosted or not.
InitRefusals ==
    /\ pos \in {p \in Placements(Corner(0), Corner(3)) :
                   p["Orc"] = <<1, 0>> /\ p["Troll"] = <<3, 0>>}
    /\ hp = max_hp
    /\ defense = base_defense
    /\ ai = [a \in Actors |-> IF a = "Troll" THEN <<>> ELSE HostileEnemy]
    /\ \E n \in {0, 2} :
         /\ is_speeded = [a \in Actors |-> a = player /\ n > 0]
         /\ speed_turns_remaining = [a \in Actors |-> IF a = player THEN n ELSE 0]
    /\ entities = <<"itemB">>
    /\ item_xy \in {f \in [Items -> {<<0, 0>>, <<1, 0>>}] : f["itemA"] = <<0, 0>>}
    /\ parent = [i \in Items |-> IF i = "itemA" THEN player ELSE "gamemap"]
    /\ consumable \in {c \in [Items -> Kinds \ {"fireball"}] : c["itemB"] = "healing"}
    /\ inventory = [a \in Actors |-> IF a = player THEN <<"itemA">> ELSE <<>>]
    /\ visible \in {Tiles, {}}
    /\ InitQuiet

NextRefusals == Melee \/ Pickup \/ TakeStairs \/ UseItemAlive

SpecRefusals == InitRefusals /\ [][NextRefusals]_vars

\* Status scrolls: the player in the corner holding two scrolls, each of
\* Confusion or Hypnotizing, the Orc next to it and the Troll further away, each
\* with its AI or without one.
InitStatus ==
    /\ pos \in {p \in Placements(Corner(0), Corner(3)) :
                   p["Orc"] \in Corner(1) /\ p["Troll"] = <<3, 0>>}
    /\ hp = max_hp
    /\ defense = base_defense
    /\ ai \in {f \in [Actors -> {<<>>, HostileEnemy}] : f[player] # <<>>}
    /\ is_speeded = [a \in Actors |-> FALSE]
    /\ speed_turns_remaining = [a \in Actors |-> 0]
    /\ entities = <<>>
    /\ item_xy = [i \in Items |-> <<0, 0>>]
    /\ parent = [i \in Items |-> player]
    /\ consumable \in [Items -> {"confusion", "hypnotizing"}]
    /\ inventory = [a \in Actors |-> IF a = player THEN <<"itemB", "itemA">> ELSE <<>>]
    /\ visible \in VisibleFields
    /\ InitQuiet

SpecStatus == InitStatus /\ [][UseItem]_vars

\* Rendering: the player in the corner holding a Lightning and a Fireball
\* scroll, the Orc next to it; the scrolls are used, then the passes follow.
InitRender ==
    /\ pos \in {p \in Placements(Corner(0), Corner(3)) :
                   p["Orc"] \in Corner(1) /\ p["Troll"] = <<3, 0>>}
    /\ hp = max_hp
    /\ defense = base_defense
    /\ ai = [a \in Actors |-> HostileEnemy]
    /\ is_speeded = [a \in Actors |-> FALSE]
    /\ speed_turns_remaining = [a \in Actors |-> 0]
    /\ entities = <<>>
    /\ item_xy = [i \in Items |-> <<0, 0>>]
    /\ parent = [i \in Items |-> player]
    /\ consumable = [i \in Items |-> IF i = "itemA" THEN "lightning" ELSE "fireball"]
    /\ inventory = [a \in Actors |-> IF a = player THEN <<"itemB", "itemA">> ELSE <<>>]
    /\ visible \in {Tiles, {}}
    /\ InitQuiet

NextRender == UseItemFirst \/ Render

SpecRender == InitRender /\ [][NextRender]_vars

\* Speed boost: the player alone acts, holding a speed scroll and a second scroll
\* or a potion, with no boost or with a boost about to end.
InitSpeed ==
    /\ pos \in {p \in Placements(Corner(1), Corner(3) \ Corner(1)) : p["Orc"][2] = 0}
    /\ hp = max_hp
    /\ defense = base_defense
    /\ ai = [a \in Actors |-> IF a = player THEN HostileEnemy ELSE <<>>]
    /\ \E n \in 0 .. 2 :
         /\ is_speeded = [a \in Actors |-> a = player /\ n > 0]
         /\ speed_turns_remaining = [a \in Actors |-> IF a = player THEN n ELSE 0]
    /\ entities = <<>>
    /\ item_xy = [i \in Items |-> <<0, 0>>]
    /\ parent = [i \in Items |-> player]
    /\ consumable \in {c \in [Items -> {"speed", "healing"}] : c["itemA"] = "speed"}
    /\ inventory = [a \in Actors |-> IF a = player THEN <<"itemB", "itemA">> ELSE <<>>]
    /\ visible = Tiles
    /\ InitQuiet

NextSpeed == Move \/ UseItem \/ Wait

SpecSpeed == InitSpeed /\ [][NextSpeed]_vars

\* ------------------------------------------------------------------------
\* Properties
\* ------------------------------------------------------------------------
TimesPerformed(a) == Cardinality({i \in 1 .. Len(performed) : performed[i][1] = a})

Impossible(raised) == raised \notin {Ok, Fatal}

\* C1: during and after a handle_enemy_turns call every actor other than the
\* player that has an AI and has been visited had its AI performed exactly once,
\* the player and the actors without AI never; the call is cut short only by an
\* exception that is not Impossible, so an Impossible of one actor never keeps
\* the remaining actors from acting.
C1_EveryEnemyActsOnce ==
    /\ turn_pc \in {"loop", "returned"} =>
         \A a \in Actors :
            TimesPerformed(a) =
                IF a # player /\ ai[a] # <<>> /\ a \notin pending THEN 1 ELSE 0
    /\ turn_pc = "returned" => pending = {}
    /\ turn_pc = "aborted" =>
         /\ performed # <<>>
         /\ performed[Len(performed)][2] = Fatal
    /\ TimesPerformed(player) = 0

\* A call returned in which the first actor's AI failed with Impossible and the
\* second actor acted after it.
C1_Witness ==
    /\ turn_pc = "returned"
    /\ Len(performed) = 2
    /\ Impossible(performed[1][2])
    /\ performed[2][2] = Ok
    /\ performed[1][1] # performed[2][1]

\* The tile s steps of (dx, dy) away from xy is on the map, walkable and free of
\* actors placed as p places them.
StepClear(p, xy, dx, dy, s) ==
    LET t == <<xy[1] + dx * s, xy[2] + dy * s>>
    IN  /\ t \in Tiles
        /\ t \notin Walls
        /\ \A a \in Actors : p[a] # t

\* The length of the longest clear prefix of the steps 1 .. speed.
ClearPrefix(e, dx, dy) ==
    IF ~StepClear(pos, pos[e], dx, dy, 1) THEN 0
    ELSE IF is_speeded[e] /\ StepClear(pos, pos[e], dx, dy, 2) THEN 2
    ELSE 1

\* C2: a MovementAction moves its actor by (dx, dy) * k, k the length of the
\* longest clear prefix of the steps 1 .. speed (speed 2 with a boost, else 1),
\* and moves nobody else; it succeeds exactly when k >= 1.
C2_MovesByClearPrefix ==
    [][last'.op = "MovementAction" =>
         LET e == last'.entity
             k == ClearPrefix(e, last'.dx, last'.dy)
         IN  /\ pos' = [pos EXCEPT ![e] = <<pos[e][1] + last'.dx * k,
                                             pos[e][2] + last'.dy * k>>]
             /\ (last'.raised = Ok) <=> (k >= 1)]_vars

\* A boosted actor has moved one tile, the second step being blocked.
C2_Witness ==
    /\ last.op = "MovementAction"
    /\ last.raised = Ok
    /\ is_speeded[last.entity]
    /\ pos[last.entity] = <<last.at[1] + last.dx, last.at[2] + last.dy>>
    /\ ~StepClear(pos, last.at, last.dx, last.dy, 2)

\* C3: a MovementAction whose first step is out of bounds, not walkable or
\* occupied raises Impossible and changes nothing, so that the same move is
\* blocked again in the state it leaves.
C3_BlockedMoveChangesNothing ==
    [][(/\ last'.op = "MovementAction"
        /\ ~StepClear(pos, pos[last'.entity], last'.dx, last'.dy, 1)) =>
         /\ last'.raised = "That way is blocked."
         /\ UNCHANGED world
         /\ ~StepClear(pos', pos'[last'.entity], last'.dx, last'.dy, 1)]_vars

\* A boosted actor was refused a move onto a tile another actor stands on, the
\* tile behind it being free.
C3_Witness ==
    /\ last.op = "MovementAction"
    /\ last.raised = "That way is blocked."
    /\ is_speeded[last.entity]
    /\ \E a \in Actors \ {last.entity} :
          pos[a] = <<pos[last.entity][1] + last.dx, pos[last.entity][2] + last.dy>>
    /\ StepClear(pos, pos[last.entity], last.dx, last.dy, 2)

\* The items lying on the map.
WorldItems == Range(entities)

\* The first item of the map's entities among those on the tile xy.
FirstItemAt(xy) ==
    LET here == {i \in 1 .. Len(entities) : item_xy[entities[i]] = xy}
    IN  entities[CHOOSE i \in here : \A j \in here : i <= j]

\* C4: a PickupAction by an actor on a tile with at least one item succeeds when
\* the inventory is below capacity: the first such item leaves the map and is
\* appended to the actor's inventory, which grows by one while the items on the
\* map shrink by one; at capacity it fails with Impossible and neither the
\* items on the map nor any inventory change.
C4_PickupMovesOneItem ==
    [][(/\ last'.op = "PickupAction"
        /\ \E i \in WorldItems : item_xy[i] = pos[last'.entity]) =>
         LET e == last'.entity
             item == FirstItemAt(pos[e])
         IN  IF Len(inventory[e]) < capacity[e]
             THEN /\ last'.raised = Ok
                  /\ inventory' = [inventory EXCEPT ![e] = inventory[e] \o <<item>>]
                  /\ Len(inventory'[e]) = Len(inventory[e]) + 1
                  /\ WorldItems' = WorldItems \ {item}
                  /\ Cardinality(WorldItems') = Cardinality(WorldItems) - 1
                  /\ Len(entities') = Len(entities) - 1
             ELSE /\ Len(inventory[e]) = capacity[e]
                  /\ last'.raised = "Your inventory is full."
                  /\ entities' = entities
                  /\ inventory' = inventory]_vars

\* The player picked up one of the two items on its tile; the other one still
\* lies there.
C4_Witness ==
    /\ last.op = "PickupAction"
    /\ last.raised = Ok
    /\ inventory[last.entity] = <<last.item>>
    /\ \E i \in WorldItems : item_xy[i] = pos[last.entity]

\* The player, already holding an item, picked up a second one.
C4_SecondItemWitness ==
    /\ last.op = "PickupAction"
    /\ last.raised = Ok
    /\ Len(inventory[last.entity]) = 2
    /\ inventory[last.entity][2] = last.item

\* The Orc, whose inventory has capacity 0, stood on an item and was refused.
C4_FullWitness ==
    /\ last.op = "PickupAction"
    /\ last.raised = "Your inventory is full."
    /\ last.entity = "Orc"
    /\ \E i \in WorldItems : item_xy[i] = pos["Orc"]

\* An ItemAction on an item of the given kind has just been performed.
Used(kind) == last'.op = "ItemAction" /\ consumable[last'.item] = kind

\* C5: a LightningDamage activation that struck a target removes the scroll
\* from the inventory of its user, which shrinks by exactly one.
C5_LightningConsumesScroll ==
    [][(Used("lightning") /\ last'.raised = Ok) =>
         /\ Len(inventory'[last'.entity]) = Len(inventory[last'.entity]) - 1
         /\ last'.item \notin Range(inventory'[last'.entity])]_vars

\* The squared Euclidean distance of two tiles.
Dist2(s, t) == (s[1] - t[1]) * (s[1] - t[1]) + (s[2] - t[2]) * (s[2] - t[2])

\* The visible actors other than e within max_range of e.
InLightningRange(e) ==
    {a \in Actors \ {e} :
        pos[a] \in visible /\ Dist2(pos[a], pos[e]) <= LightningRange * LightningRange}

\* The place of an actor in the iteration order of the actors.
OrderOf(a) == CHOOSE i \in 1 .. Len(ActorOrder) : ActorOrder[i] = a

\* The closest actor of a non-empty set to e, the first in iteration order among
\* the equally close.
Closest(e, S) ==
    CHOOSE a \in S :
        \A b \in S \ {a} :
            \/ Dist2(pos[a], pos[e]) < Dist2(pos[b], pos[e])
            \/ /\ Dist2(pos[a], pos[e]) = Dist2(pos[b], pos[e])
               /\ OrderOf(a) < OrderOf(b)

\* C6: a LightningDamage activation damages exactly the closest visible actor
\* within max_range of the user, the first in iteration order among the equally
\* close, and fails with Impossible, damaging nobody, when there is none.
C6_LightningStrikesClosestInRange ==
    [][Used("lightning") =>
         LET e == last'.entity
         IN  IF InLightningRange(e) = {}
             THEN /\ last'.raised = "No enemy is close enough to strike."
                  /\ hp' = hp
             ELSE LET target == Closest(e, InLightningRange(e))
                  IN  /\ last'.raised = Ok
                      /\ hp' = [hp EXCEPT ![target] =
                                  IF @ < LightningDamage THEN 0 ELSE @ - LightningDamage]
                      /\ lightning_effect'.end = pos[target]]_vars

\* The actors within the fireball's radius of the tile t.
InFireball(t) == {a \in Actors : Dist2(pos[a], t) <= 16}

\* C7: a FireballDamage activation on a visible tile that hits nobody fails
\* with Impossible and has changed nothing: no hp, inventory, message or effect
\* descriptor.
C7_FireballMissChangesNothing ==
    [][(/\ Used("fireball")
        /\ last'.target_xy \in visible
        /\ InFireball(last'.target_xy) = {}) =>
         /\ Impossible(last'.raised)
         /\ UNCHANGED world]_vars

\* C8: a FireballDamage activation on a visible tile takes its damage once from
\* every actor, the consumer included, at squared distance <= radius^2 = 16
\* from the tile, and leaves the hp of every other actor alone.
C8_FireballDamagesTheDisc ==
    [][(Used("fireball") /\ last'.target_xy \in visible) =>
         /\ FireballRadius * FireballRadius = 16
         /\ \A a \in Actors :
              hp'[a] = IF a \in InFireball(last'.target_xy)
                       THEN (IF hp[a] < FireballDamage THEN 0 ELSE hp[a] - FireballDamage)
                       ELSE hp[a]]_vars

\* A fireball has been cast that burnt its consumer once and an actor exactly
\* four tiles from the target, and spared an actor just outside the disc.
C8_Witness ==
    /\ last.op = "ItemAction"
    /\ consumable[last.item] = "fireball"
    /\ last.raised = Ok
    /\ hp[player] = PlayerHp - FireballDamage
    /\ last.entity = player
    /\ \E a \in Actors \ {player} :
          Dist2(pos[a], last.target_xy) = 16 /\ hp[a] < max_hp[a]
    /\ \E a \in Actors :
          Dist2(pos[a], last.target_xy) = 17 /\ hp[a] = max_hp[a]

\* C9: a FireballDamage activation with no actor in the radius raises
\* Impossible and leaves every inventory as it was; on a visible tile with one
\* or more actors in the radius it removes the scroll, and only the scroll,
\* from the inventory of its user, however many actors were hit.
C9_FireballConsumedOnceOnHit ==
    [][Used("fireball") =>
         LET e == last'.entity
         IN  IF InFireball(last'.target_xy) = {}
             THEN /\ Impossible(last'.raised)
                  /\ inventory' = inventory
             ELSE last'.target_xy \in visible =>
                    /\ last'.raised = Ok
                    /\ Len(inventory'[e]) = Len(inventory[e]) - 1
                    /\ last'.item \notin Range(inventory'[e])
                    /\ Range(inventory'[e]) = Range(inventory[e]) \ {last'.item}
                    /\ \A a \in Actors \ {e} : inventory'[a] = inventory[a]]_vars

\* A fireball that hit all three actors took the scroll, and nothing else, from
\* the two items its user held.
C9_Witness ==
    /\ last.op = "ItemAction"
    /\ consumable[last.item] = "fireball"
    /\ last.raised = Ok
    /\ \A a \in Actors : hp[a] < max_hp[a]
    /\ inventory[last.entity] = <<"itemB">>

\* A fireball on a visible tile with nobody in its radius was refused and the
\* scroll kept.
C9_MissWitness ==
    /\ last.op = "ItemAction"
    /\ consumable[last.item] = "fireball"
    /\ last.raised = "There are no targets in the radius."
    /\ Len(inventory[last.entity]) = 2

SelfTargetMsg(kind) ==
    IF kind = "confusion" THEN "You cannot confuse yourself!"
    ELSE "You cannot hypnotize yourself!"

\* C10: a Confusion or Hypnotizing activation fails with the not-visible
\* message whenever the target tile is not visible, whoever stands on it; on a
\* visible tile with the self-target message when the consumer stands there, and
\* with the no-target message when nobody does; otherwise it succeeds.
C10_StatusCheckOrder ==
    [][(Used("confusion") \/ Used("hypnotizing")) =>
         LET e == last'.entity
             t == last'.target_xy
         IN  /\ t \notin visible =>
                  last'.raised = "You cannot target an area that you cannot see."
             /\ (t \in visible /\ pos[e] = t) =>
                  last'.raised = SelfTargetMsg(consumable[last'.item])
             /\ (t \in visible /\ \A a \in Actors : pos[a] # t) =>
                  last'.raised = "You must select an enemy to target."
             /\ (t \in visible /\ \E a \in Actors \ {e} : pos[a] = t) =>
                  last'.raised = Ok]_vars

\* The consumer aimed at its own tile, which is not visible, and was told that
\* it cannot see the tile.
C10_Witness ==
    /\ last.op = "ItemAction"
    /\ consumable[last.item] \in {"confusion", "hypnotizing"}
    /\ last.target_xy = pos[last.entity]
    /\ last.target_xy \notin visible
    /\ last.raised = "You cannot target an area that you cannot see."

AlreadySpeededMsg == "You are already under the effect of a speed scroll."

\* C11: a speed scroll activated by a consumer whose boost is still active is
\* refused with Impossible, and the refusal leaves the remaining-turn counter
\* where it was (it is not set back to the scroll's number of turns), the boost
\* flag set and the scroll in the inventory.
C11_SpeedBoostCannotStack ==
    [][(Used("speed") /\ is_speeded[last'.entity]) =>
          /\ last'.raised = AlreadySpeededMsg
          /\ speed_turns_remaining' = speed_turns_remaining
          /\ is_speeded' = is_speeded
          /\ inventory' = inventory]_vars

\* The consumer read a scroll, moved, and was refused the second scroll, which it
\* still holds, with the counter below the scroll's number of turns.
C11_Witness ==
    /\ last.op = "ItemAction"
    /\ consumable[last.item] = "speed"
    /\ last.raised = AlreadySpeededMsg
    /\ is_speeded[last.entity]
    /\ speed_turns_remaining[last.entity] < SpeedTurns
    /\ \E i \in 1 .. Len(message_log) :
         message_log[i] = Msg("You feel yourself moving faster", last.entity)
    /\ last.item \in Range(inventory[last.entity])

HitMsg(target) == Msg("attacks for hit points", target)

NoDamageMsg(target) == Msg("attacks but does no damage", target)

\* The number of attacks that have damaged the actor.
TimesHit(a) == Cardinality({i \in 1 .. Len(message_log) : message_log[i] = HitMsg(a)})

Floored(n) == IF n < 0 THEN 0 ELSE n

\* C12: an attack on an actor standing on the destination tile computes the
\* attacker's power minus the defender's defense; when that is zero or less the
\* no-damage message is logged and no hp changes, otherwise the hit is logged
\* and the target's hp, and nobody else's, goes down by exactly the damage,
\* stopping at 0. The Orc without armour, which only the player can reach, has
\* 10, 7, 4, 1 and then 0 hp after 0, 1, 2, 3 and 4 or more hits.
C12_MeleeDamage ==
    /\ [](defense["Orc"] = base_defense["Orc"] =>
            hp["Orc"] = Floored(OrcHp - TimesHit("Orc") * (power[player] - base_defense["Orc"])))
    /\ [][LET e == last'.entity
              t == get_actor_at_location(pos[e][1] + last'.dx, pos[e][2] + last'.dy)
              damage == power[e] - defense[t]
          IN  (last'.op = "MeleeAction" /\ t # None) =>
                /\ last'.raised = Ok
                /\ IF damage <= 0
                   THEN /\ hp' = hp
                        /\ message_log' = Append(message_log, NoDamageMsg(t))
                   ELSE /\ hp' = [hp EXCEPT ![t] = Floored(hp[t] - damage)]
                        /\ message_log' = Append(message_log, HitMsg(t))]_vars

\* The Orc hit the armoured player without damaging it, and the player then hit
\* the Orc four times: the fourth hit took the last hp and no more.
C12_Witness ==
    /\ last.op = "MeleeAction"
    /\ last.entity = player
    /\ message_log = <<NoDamageMsg(player), HitMsg("Orc"), HitMsg("Orc"), HitMsg("Orc"),
                       HitMsg("Orc")>>
    /\ hp[player] = PlayerHp
    /\ hp["Orc"] = 0

\* C13: the order in which handle_enemy_turns performs the AIs is a function of
\* the world state: at every point of the loop the state leaves at most one
\* actor with an AI that can be the next to perform, so that two calls from the
\* same state perform the actors in the same order.
C13_DeterministicOrder ==
    turn_pc = "loop" => Cardinality({e \in NextInSet(pending) : ai[e] # <<>>}) <= 1

\* C17: an exception other than Impossible raised by an AI leaves
\* handle_enemy_turns at once: the call is aborted, the failed perform is the
\* last one of the call, and from then on no actor still waiting performs.
C17_FatalPropagates ==
    /\ [](\A i \in 1 .. Len(performed) :
             performed[i][2] = Fatal => (turn_pc = "aborted" /\ i = Len(performed)))
    /\ [][turn_pc = "aborted" => (performed' = performed /\ pending' = pending)]_vars

\* The AI of the first actor visited failed, and the other actor, which has an
\* AI, is still waiting and has not performed.
C17_Witness ==
    /\ turn_pc = "aborted"
    /\ Len(performed) = 1
    /\ performed[1][2] = Fatal
    /\ \E a \in pending : ai[a] # <<>> /\ TimesPerformed(a) = 0

SpeedOverMsg(e) == Msg("is no longer under the effect of a speed scroll.", e)

\* C18: while an actor is boosted its remaining-turn counter is at least 1. A
\* successful move of a boosted actor, of one tile or of two, takes exactly 1
\* off the counter; the flag is cleared and the status-removed message logged
\* exactly when the counter reaches 0. A speed scroll that takes effect sets the
\* counter to its number of turns. A blocked move and every other action leave
\* every counter and flag as they were. So a boost of N turns ends with the
\* N-th successful move.
C18_BoostLastsNMoves ==
    /\ [](\A a \in Actors : is_speeded[a] => speed_turns_remaining[a] >= 1)
    /\ [][LET e == last'.entity
          IN  IF last'.op = "MovementAction" /\ last'.raised = Ok /\ is_speeded[e]
              THEN /\ speed_turns_remaining' =
                         [speed_turns_remaining EXCEPT ![e] = @ - 1]
                   /\ is_speeded' = [is_speeded EXCEPT ![e] = speed_turns_remaining'[e] # 0]
                   /\ message_log' = IF speed_turns_remaining'[e] = 0
                                     THEN Append(message_log, SpeedOverMsg(e))
                                     ELSE message_log
              ELSE IF Used("speed") /\ last'.raised = Ok
              THEN /\ speed_turns_remaining' =
                         [speed_turns_remaining EXCEPT ![e] = SpeedTurns]
                   /\ is_speeded' = [is_speeded EXCEPT ![e] = TRUE]
              ELSE /\ speed_turns_remaining' = speed_turns_remaining
                   /\ is_speeded' = is_speeded]_vars

\* The player read a scroll and the boost has just ended with a move of the
\* player: the two messages follow each other in the log.
C18_Witness ==
    /\ last.op = "MovementAction"
    /\ last.raised = Ok
    /\ ~is_speeded[last.entity]
    /\ speed_turns_remaining[last.entity] = 0
    /\ message_log = <<Msg("You feel yourself moving faster", last.entity),
                       SpeedOverMsg(last.entity)>>

\* C20: a bump of an actor towards (dx,dy) is the attack of MeleeAction with
\* the same actor and direction when an actor stands on the adjacent destination
\* tile, and the move of MovementAction otherwise, in every part of the state.
\* With an actor there the bump succeeds as an attack; with none there and the
\* way blocked it fails with Movement's message and changes nothing.
C20_BumpDelegates ==
    [][LET e == last'.entity
           dx == last'.dx
           dy == last'.dy
           target == get_actor_at_location(pos[e][1] + dx, pos[e][2] + dy)
       IN  IF target # None
           THEN /\ MeleeAction(e, dx, dy)
                /\ last'.op = "MeleeAction"
                /\ last'.raised = Ok
                /\ pos' = pos
           ELSE /\ MovementAction(e, dx, dy)
                /\ last'.op = "MovementAction"
                /\ ClearPrefix(e, dx, dy) = 0 =>
                      (last'.raised = "That way is blocked." /\ UNCHANGED world)
                /\ ClearPrefix(e, dx, dy) > 0 => (last'.raised = Ok /\ hp' = hp)]_vars

\* An earlier bump hit the actor in the way, and the last bump, against a wall
\* or the edge of the map, failed as a move.
C20_Witness ==
    /\ last.op = "MovementAction"
    /\ last.raised = "That way is blocked."
    /\ get_actor_at_location(pos[last.entity][1] + last.dx,
                             pos[last.entity][2] + last.dy) = None
    /\ \E a \in Actors \ {last.entity} : message_log = <<HitMsg(a)>> /\ hp[a] < max_hp[a]

\* C14: whatever pickups, drops, item uses and moves have been performed, no
\* inventory holds more items than its capacity; the Orc and the Troll, whose
\* capacity is 0, hold nothing.
C14_InventoryWithinCapacity ==
    /\ \A a \in Actors : Len(inventory[a]) <= capacity[a]
    /\ \A a \in Actors : capacity[a] = 0 => inventory[a] = <<>>

\* The player dropped an item and walked away, the Orc walked onto the item and
\* tried to pick it up: it was told that its inventory is full, and holds nothing.
C14_Witness ==
    /\ last.op = "PickupAction"
    /\ last.entity = "Orc"
    /\ last.raised = "Your inventory is full."
    /\ pos["Orc"] = item_xy[last.item]
    /\ \E i \in 1 .. Len(message_log) : message_log[i] = Msg("You dropped the", last.item)
    /\ last.item \in Range(entities)
    /\ inventory["Orc"] = <<>>

Holders(i) == {a \in Actors : i \in Range(inventory[a])}

Holdings(i) ==
    {<<a, k>> \in Actors \X (1 .. Cardinality(Items)) :
        k <= Len(inventory[a]) /\ inventory[a][k] = i}

MapPlaces(i) == {k \in 1 .. Len(entities) : entities[k] = i}

\* C15: at any time an item is in at most one place: once among the entities
\* of the map, or once in one inventory, or nowhere. A successful pickup takes
\* an item that lay on the map and was held by nobody to the inventory of the
\* actor and off the map in one perform; an item that has been consumed is
\* neither on the map nor in an inventory.
C15_ItemInOnePlace ==
    /\ [](\A i \in Items : Cardinality(Holdings(i)) + Cardinality(MapPlaces(i)) <= 1)
    /\ [][/\ (last'.op = "PickupAction" /\ last'.raised = Ok) =>
               /\ last'.item \in Range(entities) /\ Holders(last'.item) = {}
               /\ last'.item \notin Range(entities')
               /\ {a \in Actors : last'.item \in Range(inventory'[a])} = {last'.entity}
          /\ (last'.op = "ItemAction" /\ last'.raised = Ok /\ inventory' # inventory) =>
               /\ Holders(last'.item) = {last'.entity}
               /\ {a \in Actors : last'.item \in Range(inventory'[a])} = {}
               /\ last'.item \notin Range(entities')]_vars

\* The player dropped an item and picked it up again: it is back in the
\* inventory of the player and off the map.
C15_Witness ==
    /\ last.op = "PickupAction"
    /\ last.raised = Ok
    /\ message_log = <<Msg("You dropped the", last.item), Msg("You picked up the", last.item)>>
    /\ Holders(last.item) = {last.entity}
    /\ last.item \notin Range(entities)

\* C16: whatever attacks, lightning bolts, fireballs and potions have taken
\* effect, the hp of every actor is at least 0 and at most its max_hp.
C16_HpWithinBounds == \A a \in Actors : 0 <= hp[a] /\ hp[a] <= max_hp[a]

\* A potion worth 4 hp brought the player from one below its maximum to the
\* maximum, and a hit then took more than the Orc had left: it is at 0.
C16_Witness ==
    /\ last.op = "MeleeAction"
    /\ last.entity = player
    /\ \E i \in Items : message_log = <<Msg("You consume the", i), HitMsg("Orc")>>
    /\ hp[player] = PlayerHp
    /\ hp["Orc"] = 0

\* C19: a perform other than a Movement or a Fireball that fails with Impossible
\* changes nothing of the world: no position, hp, AI, boost flag or counter,
\* inventory, item of the map, message or effect slot. The cases fail as named:
\* an attack on a tile without an actor, a pickup on a tile without an item or
\* into an inventory without room, the stairs taken off a downstairs tile, a
\* potion drunk at full hp, lightning with no other actor in sight, a speed
\* scroll read while boosted; the three failures of a Confusion or Hypnotizing
\* scroll are failures of this kind too.
C19_RefusalChangesNothing ==
    [][LET e == last'.entity
           op == last'.op
           refused(msg) == last'.raised = msg /\ UNCHANGED world
       IN  /\ (Impossible(last'.raised) /\ op # "MovementAction" /\ ~Used("fireball")) =>
                 UNCHANGED world
           /\ (op = "MeleeAction" /\ \A a \in Actors :
                     pos[a] # <<pos[e][1] + last'.dx, pos[e][2] + last'.dy>>) =>
                 refused("Nothing to attack.")
           /\ (op = "PickupAction" /\ \A i \in Range(entities) : item_xy[i] # pos[e]) =>
                 refused("There is nothing here to pick up.")
           /\ (op = "PickupAction" /\ (\E i \in Range(entities) : item_xy[i] = pos[e])
                 /\ Len(inventory[e]) >= capacity[e]) =>
                 refused("Your inventory is full.")
           /\ (op = "TakeStairsAction" /\ pos[e] \notin downstairs_tiles) =>
                 refused("There are no stairs here.")
           /\ (Used("healing") /\ hp[e] = max_hp[e]) =>
                 refused("Your health is already full.")
           /\ (Used("lightning") /\ \A a \in Actors \ {e} : pos[a] \notin visible) =>
                 refused("No enemy is close enough to strike.")
           /\ (Used("speed") /\ is_speeded[e]) => refused(AlreadySpeededMsg)
           /\ (Used("confusion") \/ Used("hypnotizing")) =>
                 (last'.raised = Ok
                    <=> (last'.target_xy \in visible
                           /\ \E a \in Actors \ {e} : pos[a] = last'.target_xy))]_vars

\* After the player picked up the potion it stood on, it tried to drink it
\* unhurt: it was refused and still holds it.
C19_Witness ==
    /\ last.op = "ItemAction"
    /\ consumable[last.item] = "healing"
    /\ last.raised = "Your health is already full."
    /\ hp[last.entity] = max_hp[last.entity]
    /\ message_log = <<Msg("You picked up the", last.item)>>
    /\ last.item \in Range(inventory[last.entity])

\* The strategy class and the number of turns of a status scroll.
StatusCls(kind) == IF kind = "confusion" THEN "ConfusedEnemy" ELSE "HypnotizedEnemy"

StatusTurns(kind) == IF kind = "confusion" THEN ConfusionTurns ELSE HypnotizingTurns

\* C21: a Confusion or Hypnotizing scroll that takes effect gives the actor on
\* the target tile, and nobody else, a new strategy of the scroll's class whose
\* turn counter is the scroll's number of turns and whose previous_ai is the
\* whole strategy the target held just before, an overlay of an earlier scroll
\* included; the scroll leaves the inventory of the consumer, which gets
\* shorter by exactly one, and the other items stay.
C21_StatusOverlay ==
    [][LET e == last'.entity
           item == last'.item
           kind == consumable[item]
           t == get_actor_at_location(last'.target_xy[1], last'.target_xy[2])
       IN  ((Used("confusion") \/ Used("hypnotizing")) /\ last'.raised = Ok) =>
             /\ t \in Actors \ {e}
             /\ Head(ai'[t]) = [cls |-> StatusCls(kind), turns_remaining |-> StatusTurns(kind)]
             /\ Tail(ai'[t]) = ai[t]
             /\ \A a \in Actors \ {t} : ai'[a] = ai[a]
             /\ item \in Range(inventory[e])
             /\ item \notin Range(inventory'[e])
             /\ Len(inventory'[e]) = Len(inventory[e]) - 1
             /\ Range(inventory'[e]) = Range(inventory[e]) \ {item}
             /\ \A a \in Actors \ {e} : inventory'[a] = inventory[a]]_vars

\* The player has read both scrolls at the same actor: the second strategy lies
\* over the first, which lies over the AI the actor had, and the player holds
\* no scroll any more.
C21_Witness ==
    /\ last.op = "ItemAction"
    /\ last.raised = Ok
    /\ consumable[last.item] \in {"confusion", "hypnotizing"}
    /\ inventory[last.entity] = <<>>
    /\ \E t \in Actors \ {last.entity} :
         /\ pos[t] = last.target_xy
         /\ Len(ai[t]) = 3
         /\ ai[t][1].cls = StatusCls(consumable[last.item])
         /\ ai[t][2].cls \in {"ConfusedEnemy", "HypnotizedEnemy"}
         /\ ai[t][3].cls = "HostileEnemy"

\* The passes that drew the effect of the slot.
PassesDrawn(slot) == {k \in 1 .. Len(drawn) : drawn[k][slot]}

\* What the passes so far say about an effect recorded with EffectFrames frames
\* before the first pass: they drew it from the first pass on without a gap, at
\* most EffectFrames times, each pass taking one frame, and it left the slot
\* after being drawn EffectFrames times.
DrawnWhileFramesLast(slot, effect) ==
    LET n == Cardinality(PassesDrawn(slot))
    IN  /\ PassesDrawn(slot) = 1 .. n
        /\ n <= EffectFrames
        /\ HasEffect(effect) => (effect.frames >= 1 /\ effect.frames = EffectFrames - n)
        /\ (~HasEffect(effect) /\ n > 0) => n = EffectFrames

\* What one pass does to a slot: an effect in it is drawn and has one frame
\* less after the pass, or has left the slot when that was its last frame; an
\* empty slot is not drawn and stays empty.
PassOverSlot(slot, effect, effectAfter, empty) ==
    IF HasEffect(effect)
    THEN /\ drawn'[Len(drawn')][slot]
         /\ IF effect.frames = 1
            THEN effectAfter = empty
            ELSE effectAfter = [effect EXCEPT !.frames = effect.frames - 1]
    ELSE /\ ~drawn'[Len(drawn')][slot]
         /\ effectAfter = empty

=============================================================================
